---- MODULE Spec2Model ----
(***************************************************************************)
(* create_blog.py: a four step pipeline, run by main():                    *)
(*   find_trending_product -> get_seo_keywords -> create_blog_post         *)
(*   -> save_as_markdown                                                   *)
(* Text is a sequence of one-character strings.  A Python value is a       *)
(* record tagged with its type, so that None, a dict, a list and a str can *)
(* be told apart and tested for truthiness the way Python does.            *)
(***************************************************************************)
EXTENDS Integers, Sequences, FiniteSets, TLC

VARIABLES
    pc,         \* where the process is: "configure", "find", "keywords", "blog", "save", "done", "exited", "crashed"
    product,    \* main's local `product`
    keywords,   \* main's local `keywords`
    blog_post,  \* main's local `blog_post`
    stdout,     \* the prefixes of the lines printed so far in this run
    calls,      \* the outbound requests and file opens issued so far in this run
    exc,        \* the exception that escaped to the process boundary, "" if none
    fs,         \* the working directory: file name -> content
    seen,       \* the responses the environment gave in this run
    written,    \* the file name this run wrote with success, NoFile if none
    run,        \* the number of the current invocation of the program
    history,    \* per finished invocation: what it wrote and the directory it left
    mock        \* the scripted API responses of a test harness, Unscripted where free

vars == <<pc, product, keywords, blog_post, stdout, calls, exc, fs, seen, written, run, history, mock>>

----------------------------------------------------------------------------
(* Bounds of the model *)

MaxTitleLen == 2     \* length of the product titles the pipeline is run on
MaxTextLen == 3      \* length of the keyword responses the pipeline is run on
MaxBlogLen == 1      \* length of the article responses
MaxRuns == 2         \* invocations of the program in a row
MaxLen == 4          \* length of the texts the single steps are run on

Strings(A, n) == UNION {[1..k -> A] : k \in 0..n}

----------------------------------------------------------------------------
(* Python values *)

None == [type |-> "NoneType"]
Unset == [type |-> "unset"]
Str(s) == [type |-> "str", s |-> s]
List(items) == [type |-> "list", items |-> items]

\* The product_info dict literal of find_trending_product: always four keys.
Dict(title, price, source, link) ==
    [type |-> "dict", title |-> title, price |-> price, source |-> source, link |-> link]

\* Mutant of Truthy: `if x is not None`-less main, every result counts as success.
TruthyAlways(v) == TRUE

\* Python truth value testing, as used by `if product:`, `if keywords:`, `if blog_post:`.
Truthy(v) ==
    CASE v.type = "NoneType" -> FALSE
      [] v.type = "dict" -> TRUE
      [] v.type = "list" -> Len(v.items) > 0
      [] v.type = "str" -> Len(v.s) > 0
      [] OTHER -> FALSE

\* dict.get(key): the value, None when the key is absent.
Get(d, key) == IF key \in DOMAIN d THEN d[key] ELSE None

\* What an f-string renders for a value: a str as itself, None as the text None.
Format(v) == IF v.type = "str" THEN v.s ELSE <<"N", "o", "n", "e">>

----------------------------------------------------------------------------
(* str.strip, str.rstrip, str.split(','), the file name filter *)

Whitespace == {" ", "\n", "\t"}

RECURSIVE LStrip(_)
LStrip(s) == IF s # <<>> /\ Head(s) \in Whitespace THEN LStrip(Tail(s)) ELSE s

RECURSIVE RStrip(_)
RStrip(s) ==
    IF s # <<>> /\ s[Len(s)] \in Whitespace THEN RStrip(SubSeq(s, 1, Len(s) - 1)) ELSE s

Strip(s) == RStrip(LStrip(s))

RECURSIVE Split(_)
Split(s) ==
    IF \E i \in 1..Len(s) : s[i] = ","
    THEN LET i == CHOOSE i \in 1..Len(s) : s[i] = "," /\ \A j \in 1..(i - 1) : s[j] # ","
         IN  <<SubSeq(s, 1, i - 1)>> \o Split(SubSeq(s, i + 1, Len(s)))
    ELSE <<s>>

\* Mutant of ParseKeywords: the segments are trimmed on the left only.
ParseKeywordsLeftOnly(text) == LET parts == Split(text) IN [i \in 1..Len(parts) |-> LStrip(parts[i])]

\* [keyword.strip() for keyword in response.text.split(',')]
ParseKeywords(text) == LET parts == Split(text) IN [i \in 1..Len(parts) |-> Strip(parts[i])]

Letters ==
    {"A", "S", "T", "X", "a", "b", "c", "e", "g", "h", "i", "k", "l", "m", "n", "o", "r", "s", "t", "u", "w"}
Digits == {"1"}
IsAlnum(x) == x \in Letters \cup Digits
KeptPunctuation == {" ", "_", "-"}

RECURSIVE KeepSafe(_)
KeepSafe(s) ==
    IF s = <<>> THEN <<>>
    ELSE IF IsAlnum(Head(s)) \/ Head(s) \in KeptPunctuation
         THEN <<Head(s)>> \o KeepSafe(Tail(s))
         ELSE KeepSafe(Tail(s))

\* Mutant of SafeFilename: the rstrip() is left out.
SafeFilenameUntrimmed(title) == KeepSafe(title)

\* "".join(x for x in title if x.isalnum() or x in " _-").rstrip()
SafeFilename(title) == RStrip(KeepSafe(title))

Filename(title) == SafeFilename(title) \o <<".", "m", "d">>

Separator == <<"\n", "\n", "-", "-", "-", "\n", "\n">>
FindItHere ==
    <<"*", "*", "F", "i", "n", "d", " ", "i", "t", " ", "h", "e", "r", "e", ":", "*", "*", " ">>

\* Mutant of FullContent: the link text is the sanitized title.
FullContentSanitized(product_info, blog_content) ==
    Format(blog_content) \o Separator \o FindItHere
        \o <<"[">> \o SafeFilename(Format(product_info.title)) \o <<"]", "(">>
        \o Format(product_info.link) \o <<")">>

\* f"{blog_content}\n\n---\n\n**Find it here:** [{title}]({link})"
FullContent(product_info, blog_content) ==
    Format(blog_content) \o Separator \o FindItHere
        \o <<"[">> \o Format(product_info.title) \o <<"]", "(">>
        \o Format(product_info.link) \o <<")">>

----------------------------------------------------------------------------
(* The working directory *)

EmptyFs == [name \in {} |-> <<>>]
NoFile == <<"<", "n", "o", "n", "e", ">">>

\* Mutant of OpenForWriting: open(filename, 'a'), an existing file keeps its content.
OpenForAppending(files, name) == IF name \in DOMAIN files THEN files ELSE (name :> <<>>) @@ files

\* open(filename, 'w'): the file is created, or truncated when it exists.
OpenForWriting(files, name) == (name :> <<>>) @@ [n \in DOMAIN files \ {name} |-> files[n]]

\* f.write(text) on the open file.
WriteTo(files, name, text) == [files EXCEPT ![name] = @ \o text]

----------------------------------------------------------------------------
(* The responses of the two APIs *)

NoResponse == [kind |-> "none"]                   \* nothing received yet
Unscripted == [kind |-> "unscripted"]            \* the script leaves the response free
RequestFailed == [kind |-> "connection_error"]   \* requests.get raises
HttpError == [kind |-> "http_error"]             \* raise_for_status raises
BadJson == [kind |-> "bad_json"]                 \* response.json() raises
Json(data) == [kind |-> "json", data |-> data]

Raises == [kind |-> "raise"]                     \* generate_content or response.text raises
Text(s) == [kind |-> "text", text |-> s]

\* One element of shopping_results: a JSON object that may lack keys.
Result(title, link) == [title |-> Str(title), price |-> Str(<<"$", "5">>), source |-> Str(<<"S">>), link |-> Str(link)]
Untitled(link) == [price |-> Str(<<"$", "5">>), source |-> Str(<<"S">>), link |-> Str(link)]
Other == [title |-> Str(<<"o">>), price |-> Str(<<"$", "1">>), source |-> Str(<<"T">>), link |-> Str(<<"m">>)]
Link == <<"l">>

ExampleTitle ==
    <<"A", "c", "m", "e", " ", "T", "r", "a", "i", "l", " ", "S", "h", "o", "e", ":", " ", "X", "1", "!">>

ExampleFilename ==
    <<"A", "c", "m", "e", " ", "T", "r", "a", "i", "l", " ", "S", "h", "o", "e", " ", "X", "1",
      ".", "m", "d">>

ExampleKeywords ==
    <<"r", "u", "n", "n", "i", "n", "g", " ", "s", "h", "o", "e", "s", ",", " ", "b", "e", "s",
      "t", " ", "t", "r", "a", "i", "l", " ", "s", "h", "o", "e", "s", ",", " ", "l", "i", "g",
      "h", "t", "w", "e", "i", "g", "h", "t", " ", "s", "n", "e", "a", "k", "e", "r", "s">>

ExampleList ==
    <<<<"r", "u", "n", "n", "i", "n", "g", " ", "s", "h", "o", "e", "s">>,
      <<"b", "e", "s", "t", " ", "t", "r", "a", "i", "l", " ", "s", "h", "o", "e", "s">>,
      <<"l", "i", "g", "h", "t", "w", "e", "i", "g", "h", "t", " ", "s", "n", "e", "a", "k", "e",
      "r", "s">>>>

Unlinked(title) == [title |-> Str(title), price |-> Str(<<"$", "5">>), source |-> Str(<<"S">>)]

PipelineTitles == Strings({"a", " ", "!", "_"}, MaxTitleLen) \cup {ExampleTitle}
FirstResults == {Result(t, Link) : t \in PipelineTitles} \cup {Untitled(Link), Unlinked(<<"a">>)}

SearchResponses ==
    {RequestFailed, HttpError, BadJson, Json([error |-> "no results"]), Json([shopping_results |-> <<>>])}
        \cup {Json([shopping_results |-> <<p>>]) : p \in FirstResults}
        \cup {Json([shopping_results |-> <<p, Other>>]) : p \in FirstResults}

KeywordResponses == {Raises} \cup {Text(s) : s \in Strings({"a", " ", ","}, MaxTextLen)}
BlogResponses == {Raises} \cup {Text(s) : s \in Strings({"a", " "}, MaxBlogLen)}
WriteOutcomes == {"ok", "open_fails", "write_fails"}

NoScript == [search |-> Unscripted, keywords |-> Unscripted, blog |-> Unscripted]
SearchInputs == IF mock.search = Unscripted THEN SearchResponses ELSE {mock.search}
KeywordInputs == IF mock.keywords = Unscripted THEN KeywordResponses ELSE {mock.keywords}
BlogInputs == IF mock.blog = Unscripted THEN BlogResponses ELSE {mock.blog}

----------------------------------------------------------------------------
(* The four steps, each as the outcome of one call: the value returned, the  *)
(* exception that escaped it ("" if none), the lines printed, and whether    *)
(* the outbound request was issued.                                          *)

Outcome(ret, raised, out, called) == [ret |-> ret, raised |-> raised, out |-> out, called |-> called]

\* Mutant of FindResult: the last element of shopping_results instead of the first.
FindResultLast(resp, decodeErrorCaught) ==
    CASE resp.kind \in {"connection_error", "http_error"} -> Outcome(None, "", <<"[INFO]", "[ERROR]">>, TRUE)
      [] resp.kind = "bad_json" ->
            IF decodeErrorCaught THEN Outcome(None, "", <<"[INFO]", "[ERROR]">>, TRUE)
            ELSE Outcome(Unset, "JSONDecodeError", <<"[INFO]">>, TRUE)
      [] OTHER ->
            IF "shopping_results" \in DOMAIN resp.data /\ Len(resp.data.shopping_results) > 0
            THEN LET p == resp.data.shopping_results[Len(resp.data.shopping_results)]
                 IN  Outcome(Dict(Get(p, "title"), Get(p, "price"), Get(p, "source"), Get(p, "link")),
                             "", <<"[INFO]", "->">>, TRUE)
            ELSE Outcome(None, "", <<"[INFO]", "[ERROR]">>, TRUE)

\* find_trending_product.  Only requests.exceptions.RequestException is caught;
\* whether the error of response.json() is one depends on the installed requests
\* (a RequestException since 2.27, a plain ValueError before): decodeErrorCaught.
FindResult(resp, decodeErrorCaught) ==
    CASE resp.kind \in {"connection_error", "http_error"} -> Outcome(None, "", <<"[INFO]", "[ERROR]">>, TRUE)
      [] resp.kind = "bad_json" ->
            IF decodeErrorCaught THEN Outcome(None, "", <<"[INFO]", "[ERROR]">>, TRUE)
            ELSE Outcome(Unset, "JSONDecodeError", <<"[INFO]">>, TRUE)
      [] OTHER ->
            IF "shopping_results" \in DOMAIN resp.data /\ Len(resp.data.shopping_results) > 0
            THEN LET p == resp.data.shopping_results[1]
                 IN  Outcome(Dict(Get(p, "title"), Get(p, "price"), Get(p, "source"), Get(p, "link")),
                             "", <<"[INFO]", "->">>, TRUE)
            ELSE Outcome(None, "", <<"[INFO]", "[ERROR]">>, TRUE)

\* get_seo_keywords.  The prompt subscripts product_info before the try.
KeywordsResult(product_info, resp) ==
    IF product_info.type # "dict" THEN Outcome(Unset, "TypeError", <<"[INFO]">>, FALSE)
    ELSE IF resp.kind = "raise" THEN Outcome(None, "", <<"[INFO]", "[ERROR]">>, TRUE)
    ELSE Outcome(List(ParseKeywords(resp.text)), "", <<"[INFO]", "->">>, TRUE)

\* create_blog_post.  The prompt joins the keywords before the try.
BlogResult(product_info, kws, resp) ==
    IF product_info.type # "dict" \/ kws.type # "list" THEN Outcome(Unset, "TypeError", <<"[INFO]">>, FALSE)
    ELSE IF resp.kind = "raise" THEN Outcome(None, "", <<"[INFO]", "[ERROR]">>, TRUE)
    ELSE Outcome(Str(Strip(resp.text)), "", <<"[INFO]", "->">>, TRUE)

SaveOutcome(files, raised, out, opened, wrote) ==
    [fs |-> files, raised |-> raised, out |-> out, called |-> opened, wrote |-> wrote]

\* save_as_markdown.  The file name is built before the try: iterating a title
\* that is None raises TypeError.  A failed open leaves the directory as it is, a
\* failed write leaves the file opened with 'w', hence empty.
SaveResult(files, product_info, blog_content, io) ==
    IF product_info.type # "dict" \/ product_info.title.type # "str"
    THEN SaveOutcome(files, "TypeError", <<"[INFO]">>, FALSE, NoFile)
    ELSE LET filename == Filename(product_info.title.s)
             full_content == FullContent(product_info, blog_content)
         IN  CASE io = "open_fails" -> SaveOutcome(files, "", <<"[INFO]", "[ERROR]">>, TRUE, NoFile)
               [] io = "write_fails" ->
                     SaveOutcome(OpenForWriting(files, filename), "", <<"[INFO]", "[ERROR]">>, TRUE, NoFile)
               [] OTHER ->
                     SaveOutcome(WriteTo(OpenForWriting(files, filename), filename, full_content), "",
                                 <<"[INFO]", "[SUCCESS]", "You can now">>, TRUE, filename)

----------------------------------------------------------------------------
(* main() and the module level configuration *)

\* Mutant of MainNext: a step that failed is tried again.
MainNextRetry(step, ret) ==
    CASE step = "find" -> IF Truthy(ret) THEN "keywords" ELSE "find"
      [] step = "keywords" -> IF Truthy(ret) THEN "blog" ELSE "keywords"
      [] step = "blog" -> IF Truthy(ret) THEN "save" ELSE "blog"
      [] OTHER -> "done"

\* The nested ifs of main(): where control goes once `step` has returned `ret`.
MainNext(step, ret) ==
    CASE step = "find" -> IF Truthy(ret) THEN "keywords" ELSE "done"
      [] step = "keywords" -> IF Truthy(ret) THEN "blog" ELSE "done"
      [] step = "blog" -> IF Truthy(ret) THEN "save" ELSE "done"
      [] OTHER -> "done"

NothingSeen == [search |-> NoResponse, keywords |-> NoResponse, blog |-> NoResponse, io |-> "none"]

\* The state of a fresh process in the directory `files`.
Fresh(files, n, script) ==
    /\ pc = "configure"
    /\ product = Unset /\ keywords = Unset /\ blog_post = Unset
    /\ stdout = <<>> /\ calls = <<>> /\ exc = ""
    /\ fs = files /\ seen = NothingSeen /\ written = NoFile
    /\ run = n /\ history = <<>> /\ mock = script

Init == Fresh(EmptyFs, 1, NoScript)

\* genai.configure at import: on an exception the process prints and exits.
Configure ==
    /\ pc = "configure"
    /\ \E ok \in BOOLEAN :
          /\ pc' = IF ok THEN "find" ELSE "exited"
          /\ stdout' = IF ok THEN stdout ELSE Append(stdout, "[FATAL ERROR]")
    /\ UNCHANGED <<product, keywords, blog_post, calls, exc, fs, seen, written, run, history, mock>>

\* product = find_trending_product(args.query); if product: ...
FindTrendingProduct ==
    /\ pc = "find"
    /\ \E resp \in SearchInputs, decodeErrorCaught \in BOOLEAN :
          LET r == FindResult(resp, decodeErrorCaught)
          IN  /\ stdout' = stdout \o r.out
              /\ calls' = IF r.called THEN Append(calls, "search") ELSE calls
              /\ seen' = [seen EXCEPT !.search = resp]
              /\ exc' = r.raised
              /\ product' = IF r.raised = "" THEN r.ret ELSE product
              /\ pc' = IF r.raised # "" THEN "crashed" ELSE MainNext("find", r.ret)
    /\ UNCHANGED <<keywords, blog_post, fs, written, run, history, mock>>

\* keywords = get_seo_keywords(product); if keywords: ...
GetSeoKeywords ==
    /\ pc = "keywords"
    /\ \E resp \in KeywordInputs :
          LET r == KeywordsResult(product, resp)
          IN  /\ stdout' = stdout \o r.out
              /\ calls' = IF r.called THEN Append(calls, "keywords") ELSE calls
              /\ seen' = IF r.called THEN [seen EXCEPT !.keywords = resp] ELSE seen
              /\ exc' = r.raised
              /\ keywords' = IF r.raised = "" THEN r.ret ELSE keywords
              /\ pc' = IF r.raised # "" THEN "crashed" ELSE MainNext("keywords", r.ret)
    /\ UNCHANGED <<product, blog_post, fs, written, run, history, mock>>

\* blog_post = create_blog_post(product, keywords); if blog_post: ...
CreateBlogPost ==
    /\ pc = "blog"
    /\ \E resp \in BlogInputs :
          LET r == BlogResult(product, keywords, resp)
          IN  /\ stdout' = stdout \o r.out
              /\ calls' = IF r.called THEN Append(calls, "article") ELSE calls
              /\ seen' = IF r.called THEN [seen EXCEPT !.blog = resp] ELSE seen
              /\ exc' = r.raised
              /\ blog_post' = IF r.raised = "" THEN r.ret ELSE blog_post
              /\ pc' = IF r.raised # "" THEN "crashed" ELSE MainNext("blog", r.ret)
    /\ UNCHANGED <<product, keywords, fs, written, run, history, mock>>

\* save_as_markdown(product, blog_post), the last statement of main().
SaveAsMarkdown ==
    /\ pc = "save"
    /\ \E io \in WriteOutcomes :
          LET r == SaveResult(fs, product, blog_post, io)
          IN  /\ stdout' = stdout \o r.out
              /\ calls' = IF r.called THEN Append(calls, "write") ELSE calls
              /\ seen' = IF r.called THEN [seen EXCEPT !.io = io] ELSE seen
              /\ exc' = r.raised
              /\ fs' = r.fs
              /\ written' = r.wrote
              /\ pc' = IF r.raised # "" THEN "crashed" ELSE MainNext("save", None)
    /\ UNCHANGED <<product, keywords, blog_post, run, history, mock>>

Ended == pc \in {"done", "exited", "crashed"}

\* The program is invoked again in the same directory, against the same script.
NextRun ==
    /\ Ended
    /\ run < MaxRuns
    /\ history' = Append(history, [written |-> written, fs |-> fs, calls |-> calls])
    /\ run' = run + 1
    /\ pc' = "configure"
    /\ product' = Unset /\ keywords' = Unset /\ blog_post' = Unset
    /\ stdout' = <<>> /\ calls' = <<>> /\ exc' = ""
    /\ seen' = NothingSeen /\ written' = NoFile
    /\ UNCHANGED <<fs, mock>>

Next == Configure \/ FindTrendingProduct \/ GetSeoKeywords \/ CreateBlogPost \/ SaveAsMarkdown

Spec == Init /\ [][Next]_vars

----------------------------------------------------------------------------
(* The program run again and again against one script of API responses *)

ScriptedSearches ==
    {HttpError, Json([shopping_results |-> <<>>]),
     Json([shopping_results |-> <<Result(ExampleTitle, Link), Other>>]),
     Json([shopping_results |-> <<Result(<<"a", "!", " ">>, Link)>>]),
     Json([shopping_results |-> <<Untitled(Link)>>])}
ScriptedKeywords == {Raises, Text(ExampleKeywords), Text(<<>>)}
ScriptedBlogs == {Raises, Text(<<"a", "\n">>), Text(<<" ">>)}
Scripts == [search : ScriptedSearches, keywords : ScriptedKeywords, blog : ScriptedBlogs]

InitRerun == \E script \in Scripts : Fresh(EmptyFs, 1, script)
NextRerun == Next \/ NextRun
SpecRerun == InitRerun /\ [][NextRerun]_vars

----------------------------------------------------------------------------
(* Single steps on a wider range of texts.  Each starts in the state main() *)
(* is in when it calls the step.                                            *)

ExampleProduct == Dict(Str(ExampleTitle), Str(<<"$", "5">>), Str(<<"S">>), Str(Link))

KeywordTexts == Strings({"a", " ", ",", "\n"}, MaxLen) \cup {ExampleKeywords}
Titles == Strings({"a", "1", " ", "_", "-", "!"}, MaxLen) \cup {ExampleTitle}

\* main() about to call get_seo_keywords(product).
InitKeywords ==
    /\ pc = "keywords"
    /\ product = ExampleProduct /\ keywords = Unset /\ blog_post = Unset
    /\ stdout = <<"[INFO]", "->">> /\ calls = <<"search">> /\ exc = ""
    /\ fs = EmptyFs /\ written = NoFile /\ run = 1 /\ history = <<>>
    /\ seen = [NothingSeen EXCEPT !.search = Json([shopping_results |-> <<Result(ExampleTitle, Link)>>])]
    /\ \E resp \in {Raises} \cup {Text(s) : s \in KeywordTexts} :
          mock = [NoScript EXCEPT !.keywords = resp]

SpecKeywords == InitKeywords /\ [][GetSeoKeywords]_vars

\* main() about to call save_as_markdown(product, blog_post).
InitSave ==
    /\ pc = "save"
    /\ \E title \in Titles :
          /\ product = Dict(Str(title), Str(<<"$", "5">>), Str(<<"S">>), Str(Link))
          /\ seen = [search |-> Json([shopping_results |-> <<Result(title, Link)>>]),
                     keywords |-> Text(<<"a">>), blog |-> Text(<<"a">>), io |-> "none"]
    /\ keywords = List(<<(<<"a">>)>>) /\ blog_post = Str(<<"a">>)
    /\ stdout = <<"[INFO]", "->", "[INFO]", "->", "[INFO]", "->">>
    /\ calls = <<"search", "keywords", "article">> /\ exc = ""
    /\ fs = EmptyFs /\ written = NoFile /\ run = 1 /\ history = <<>>
    /\ mock = NoScript

SpecSave == InitSave /\ [][SaveAsMarkdown]_vars

----------------------------------------------------------------------------
(* Properties *)

Range(seq) == {seq[i] : i \in 1..Len(seq)}
PrintedError == \E i \in 1..Len(stdout) : stdout[i] \in {"[ERROR]", "[FATAL ERROR]"}
StepOrder == <<"search", "keywords", "article", "write">>

\* C1: once a step has returned its failure indicator, no later step issues its
\* request and no file exists: after a Finder failure only the search was issued,
\* after a keyword failure no article request and no write, after an article
\* failure no write.
NoStepAfterFailure ==
    /\ product = None => calls = <<"search">> /\ fs = EmptyFs
    /\ keywords = None => calls = <<"search", "keywords">> /\ fs = EmptyFs
    /\ blog_post = None => calls = <<"search", "keywords", "article">> /\ fs = EmptyFs

\* C1 witness: the run has ended on an Article Writer failure.
ArticleFailed == pc = "done" /\ blog_post = None

\* C2: no exception escapes to the process boundary.  The claim is granted the
\* requests version whose JSON decode error is a RequestException, so that what
\* refutes it is a response every version handles the same way.
NoExceptionEscapes == exc \in {"", "JSONDecodeError"}

\* C3: a run that has ended normally without writing the file has printed a line
\* prefixed [ERROR] or [FATAL ERROR].
FailedRunPrintedError == (Ended /\ exc = "" /\ written = NoFile) => PrintedError

\* C4: for a parsed response with a non-empty shopping_results the product is a
\* dict holding the first element's title, price, source and link (None for a key
\* the element lacks); with the list empty or missing the product is None.
FinderReturnsFirstResult ==
    seen.search.kind = "json" =>
        LET data == seen.search.data
        IN  IF "shopping_results" \in DOMAIN data /\ data.shopping_results # <<>>
            THEN LET first == data.shopping_results[1]
                 IN  /\ product.type = "dict"
                     /\ product.title = (IF "title" \in DOMAIN first THEN first.title ELSE None)
                     /\ product.price = (IF "price" \in DOMAIN first THEN first.price ELSE None)
                     /\ product.source = (IF "source" \in DOMAIN first THEN first.source ELSE None)
                     /\ product.link = (IF "link" \in DOMAIN first THEN first.link ELSE None)
            ELSE product = None

\* C4 witness: a product was taken from a list of two results.
FoundAmongTwo ==
    /\ seen.search.kind = "json"
    /\ "shopping_results" \in DOMAIN seen.search.data
    /\ Len(seen.search.data.shopping_results) = 2
    /\ product.type = "dict"

CommasOf(text) == {i \in 1..Len(text) : text[i] = ","}

\* The position of the k-th comma of text; 0 for k = 0, past the end after the last.
NthComma(text, k) ==
    IF k = 0 THEN 0
    ELSE IF k > Cardinality(CommasOf(text)) THEN Len(text) + 1
    ELSE CHOOSE p \in CommasOf(text) : Cardinality({q \in CommasOf(text) : q < p}) = k - 1

Segment(text, k) == SubSeq(text, NthComma(text, k - 1) + 1, NthComma(text, k) - 1)

\* kw is seg without the whitespace it starts and ends with.
IsTrimOf(kw, seg) ==
    /\ kw # <<>> => kw[1] \notin Whitespace /\ kw[Len(kw)] \notin Whitespace
    /\ \E a \in 0..Len(seg) :
          /\ a + Len(kw) <= Len(seg)
          /\ kw = SubSeq(seg, a + 1, a + Len(kw))
          /\ \A i \in 1..Len(seg) : (i <= a \/ i > a + Len(kw)) => seg[i] \in Whitespace

\* C5: the keywords are the comma-delimited segments of the response text, in
\* order, each without leading and trailing whitespace, one more than there are
\* commas; the example text gives the example list.
KeywordsAreTrimmedSegments ==
    seen.keywords.kind = "text" =>
        LET text == seen.keywords.text
        IN  /\ keywords.type = "list"
            /\ Len(keywords.items) = Cardinality(CommasOf(text)) + 1
            /\ \A k \in 1..Len(keywords.items) : IsTrimOf(keywords.items[k], Segment(text, k))
            /\ text = ExampleKeywords => keywords.items = ExampleList

\* C5 witness: the example response has been parsed.
ExampleKeywordsParsed == seen.keywords = Text(ExampleKeywords) /\ keywords = List(ExampleList)

KeptChar(x) == IsAlnum(x) \/ x \in {" ", "_", "-"}

\* C6: the file save_as_markdown opens is named by the title's alphanumerics,
\* spaces, underscores and hyphens in their order, cut after the last one that is
\* not whitespace, followed by .md; the example title gives the example name.
FileNameIsSanitizedTitle ==
    seen.io \in {"ok", "write_fails"} =>
        LET kept == SelectSeq(product.title.s, KeptChar)
            last == IF \E i \in 1..Len(kept) : kept[i] \notin Whitespace
                    THEN CHOOSE i \in 1..Len(kept) :
                            kept[i] \notin Whitespace /\ \A j \in (i + 1)..Len(kept) : kept[j] \in Whitespace
                    ELSE 0
            name == SubSeq(kept, 1, last) \o <<".", "m", "d">>
        IN  /\ DOMAIN fs = {name}
            /\ seen.io = "ok" => written = name
            /\ product.title.s = ExampleTitle => name = ExampleFilename

\* C6 witness: the example title's file has been written.
ExampleFileWritten == product.title = Str(ExampleTitle) /\ written = ExampleFilename

CallToAction(title, link) ==
    <<"*", "*", "F", "i", "n", "d", " ", "i", "t", " ", "h", "e", "r", "e", ":", "*", "*", " ", "[">>
        \o title \o <<"]", "(">> \o link \o <<")">>

\* C7: a written file holds the article, a blank line, ---, a blank line and the
\* line **Find it here:** [title](link), with the title and the link of the first
\* search result as they came (a link the result lacks is rendered None).
ContentEndsWithLinkLine ==
    written # NoFile =>
        LET first == seen.search.data.shopping_results[1]
            link == IF "link" \in DOMAIN first THEN first.link.s ELSE <<"N", "o", "n", "e">>
        IN  /\ blog_post.s = Strip(seen.blog.text)
            /\ fs[written] = blog_post.s \o <<"\n", "\n", "-", "-", "-", "\n", "\n">>
                                \o CallToAction(first.title.s, link)

\* C7 witness: a file was written for a title that sanitizing changes.
WroteUnsanitizedTitle == written # NoFile /\ product.title = Str(ExampleTitle)

\* C8: when two invocations in a row each wrote their file, the second wrote the
\* file the first wrote and left the directory as the first left it.
RerunLeavesSameFiles ==
    (run > 1 /\ written # NoFile /\ history[run - 1].written # NoFile) =>
        /\ written = history[run - 1].written
        /\ fs = history[run - 1].fs

\* C8 witness: the second invocation has written its file over the first's.
SecondRunWrote == run = 2 /\ written # NoFile /\ history[1].written # NoFile

\* C9: a keyword response that is empty or all whitespace is a failure: no
\* article request follows it.
EmptyKeywordResponseFails ==
    (seen.keywords.kind = "text" /\ Strip(seen.keywords.text) = <<>>) => "article" \notin Range(calls)

\* C10: the requests of a run are issued in the order search, keywords, article,
\* write, each at most once.
StepsInOrderOnce == Len(calls) <= Len(StepOrder) /\ calls = SubSeq(StepOrder, 1, Len(calls))

\* C10 witness: all four steps have run.
AllFourStepsRan == calls = StepOrder /\ pc = "done"

====
